---- MODULE Spec2Model ----
(***************************************************************************)
(* ProxyAssetsHub: the rule cleaner (core/rule/cleaner_rule.py) and the    *)
(* rule processor (core/rule/processor_rule.py).                           *)
(*                                                                         *)
(* A Python str is a sequence of one-character strings.  None is the       *)
(* value None below, which is no sequence of characters; a Python          *)
(* exception leaving a function is the value IndexError.                   *)
(***************************************************************************)
EXTENDS Integers, Sequences, FiniteSets, TLC

\* ------------------------------------------------------------------------
\* Characters and the str methods the code uses
\* ------------------------------------------------------------------------

\* The characters of the model, in code-point order.
Ascii ==
  << " ", "!", "#", "$", "*", "+", ",", "-", ".", "/",
     "0", "1", "2", "3", "4", "5", "6", "7", "8", "9", ":",
     "A", "B", "C", "D", "E", "F", "G", "H", "I", "J", "K", "L", "M",
     "N", "O", "P", "Q", "R", "S", "T", "U", "V", "W", "X", "Y", "Z",
     "^",
     "a", "b", "c", "d", "e", "f", "g", "h", "i", "j", "k", "l", "m",
     "n", "o", "p", "q", "r", "s", "t", "u", "v", "w", "x", "y", "z",
     "|" >>

Chars == { Ascii[i] : i \in 1..Len(Ascii) }

\* Position of a character in code-point order (ord, up to an order isomorphism).
Ord == [ c \in Chars |-> CHOOSE i \in 1..Len(Ascii) : Ascii[i] = c ]

UpperCase == { Ascii[i] : i \in Ord["A"]..Ord["Z"] }
LowerCase == { Ascii[i] : i \in Ord["a"]..Ord["z"] }
Digits    == { Ascii[i] : i \in Ord["0"]..Ord["9"] }

CaseShift == Ord["a"] - Ord["A"]

lower_char == [ c \in Chars |-> IF c \in UpperCase THEN Ascii[Ord[c] + CaseShift] ELSE c ]
upper_char == [ c \in Chars |-> IF c \in LowerCase THEN Ascii[Ord[c] - CaseShift] ELSE c ]

\* None, and the exception raised by indexing an empty str.
None == << "None" >>
IndexError == << "IndexError" >>

\* str.lower()
lower(s) == [ i \in 1..Len(s) |-> lower_char[s[i]] ]

\* str.upper()
upper(s) == [ i \in 1..Len(s) |-> upper_char[s[i]] ]

RECURSIVE skip_right(_, _, _)
\* the first index from i on whose character is not c, or Len(s) + 1
skip_right(s, c, i) ==
  IF i <= Len(s) /\ s[i] = c THEN skip_right(s, c, i + 1) ELSE i

RECURSIVE skip_left(_, _, _)
\* the last index up to i whose character is not c, or 0
skip_left(s, c, i) ==
  IF i >= 1 /\ s[i] = c THEN skip_left(s, c, i - 1) ELSE i

\* str.lstrip(c) for a one-character argument
lstrip_char(s, c) == SubSeq(s, skip_right(s, c, 1), Len(s))

\* str.lstrip() and str.strip(): the only whitespace of the model is the space
lstrip(s) == lstrip_char(s, " ")
strip(s) == SubSeq(s, skip_right(s, " ", 1), skip_left(s, " ", Len(s)))

\* str.startswith(p)
startswith(s, p) == Len(s) >= Len(p) /\ SubSeq(s, 1, Len(p)) = p

\* c in s, for a character c
has_char(s, c) == \E i \in 1..Len(s) : s[i] = c

\* sub in s, for a str sub (the empty str is in every str)
contains(s, sub) ==
  \E i \in 1..(Len(s) - Len(sub) + 1) : SubSeq(s, i, i + Len(sub) - 1) = sub

RECURSIVE find_from(_, _, _)
\* index of the first c in s from index i on, or 0
find_from(s, c, i) ==
  IF i > Len(s) THEN 0 ELSE IF s[i] = c THEN i ELSE find_from(s, c, i + 1)

\* index of the first c in s, or 0
find_char(s, c) == find_from(s, c, 1)

\* s.split(c)[0]: s up to its first separator c
first_field(s, c) ==
  LET i == find_char(s, c) IN IF i = 0 THEN s ELSE SubSeq(s, 1, i - 1)

RECURSIVE split(_, _)
\* s.split(c): the list of the fields of s between the separators c
split(s, c) ==
  LET i == find_char(s, c)
  IN  IF i = 0 THEN << s >>
      ELSE << SubSeq(s, 1, i - 1) >> \o split(SubSeq(s, i + 1, Len(s)), c)

RECURSIVE split_ws(_)
\* s.split(): the whitespace-separated tokens of s, none of them empty
split_ws(s) ==
  LET t == lstrip(s)
      i == find_char(t, " ")
  IN  IF t = <<>> THEN <<>>
      ELSE IF i = 0 THEN << t >>
      ELSE << SubSeq(t, 1, i - 1) >> \o split_ws(SubSeq(t, i + 1, Len(t)))

\* Python truthiness of a str-or-None value: `not x`
falsy(x) == x = None \/ x = <<>>

\* ------------------------------------------------------------------------
\* core/rule/cleaner_rule.py
\* ------------------------------------------------------------------------

T_HOST            == <<"H", "O", "S", "T">>
T_HOST_SUFFIX     == <<"H", "O", "S", "T", "-", "S", "U", "F", "F", "I", "X">>
T_HOST_WILDCARD   == <<"H", "O", "S", "T", "-", "W", "I", "L", "D", "C", "A", "R", "D">>
T_HOST_KEYWORD    == <<"H", "O", "S", "T", "-", "K", "E", "Y", "W", "O", "R", "D">>
T_DOMAIN          == <<"D", "O", "M", "A", "I", "N">>
T_DOMAIN_SUFFIX   == <<"D", "O", "M", "A", "I", "N", "-", "S", "U", "F", "F", "I", "X">>
T_DOMAIN_WILDCARD == <<"D", "O", "M", "A", "I", "N", "-", "W", "I", "L", "D", "C", "A", "R", "D">>
T_DOMAIN_KEYWORD  == <<"D", "O", "M", "A", "I", "N", "-", "K", "E", "Y", "W", "O", "R", "D">>
T_IP_CIDR         == <<"I", "P", "-", "C", "I", "D", "R">>
T_IP6_CIDR        == <<"I", "P", "6", "-", "C", "I", "D", "R">>
T_IP_CIDR6        == <<"I", "P", "-", "C", "I", "D", "R", "6">>
T_IP_ASN          == <<"I", "P", "-", "A", "S", "N">>
T_GEOIP           == <<"G", "E", "O", "I", "P">>
T_PROCESS_NAME    == <<"P", "R", "O", "C", "E", "S", "S", "-", "N", "A", "M", "E">>
T_USER_AGENT      == <<"U", "S", "E", "R", "-", "A", "G", "E", "N", "T">>
T_FULL            == <<"F", "U", "L", "L">>
T_DOMAIN_SET      == <<"D", "O", "M", "A", "I", "N", "-", "S", "E", "T">>
T_RULE_SET        == <<"R", "U", "L", "E", "-", "S", "E", "T">>
T_URL_REGEX       == <<"U", "R", "L", "-", "R", "E", "G", "E", "X">>

\* TYPE_MAPPING with an entry whose value is itself a key: "DOMAIN" read as an
\* alias of "DOMAIN-SUFFIX"
TYPE_MAPPING_chained(raw_type) ==
  CASE raw_type = T_HOST          -> T_DOMAIN
    [] raw_type = T_DOMAIN        -> T_DOMAIN_SUFFIX
    [] raw_type = T_HOST_SUFFIX   -> T_DOMAIN_SUFFIX
    [] raw_type = T_HOST_WILDCARD -> T_DOMAIN_WILDCARD
    [] raw_type = T_HOST_KEYWORD  -> T_DOMAIN_KEYWORD
    [] raw_type = T_IP6_CIDR      -> T_IP_CIDR6
    [] raw_type = T_IP_CIDR6      -> T_IP_CIDR6
    [] raw_type = T_PROCESS_NAME  -> T_USER_AGENT
    [] OTHER                      -> raw_type

\* TYPE_MAPPING.get(raw_type, raw_type)
TYPE_MAPPING(raw_type) ==
  CASE raw_type = T_HOST          -> T_DOMAIN
    [] raw_type = T_HOST_SUFFIX   -> T_DOMAIN_SUFFIX
    [] raw_type = T_HOST_WILDCARD -> T_DOMAIN_WILDCARD
    [] raw_type = T_HOST_KEYWORD  -> T_DOMAIN_KEYWORD
    [] raw_type = T_IP6_CIDR      -> T_IP_CIDR6
    [] raw_type = T_IP_CIDR6      -> T_IP_CIDR6
    [] raw_type = T_PROCESS_NAME  -> T_USER_AGENT
    [] OTHER                      -> raw_type

\* the unsupported types without "URL-REGEX"
UNSUPPORTED_TYPES_no_regex == { T_DOMAIN_SET, T_RULE_SET }

UNSUPPORTED_TYPES == { T_DOMAIN_SET, T_RULE_SET, T_URL_REGEX }

\* _handle_standard_format that returns None for every type outside a fixed set
handle_standard_format_closed_set(line) ==
  LET parts      == split(line, ",")
      raw_type0  == upper(strip(parts[1]))
      value_part == lower(strip(parts[2]))
      raw_type   == IF raw_type0 = T_FULL THEN T_DOMAIN ELSE raw_type0
      final_type == TYPE_MAPPING(raw_type)
  IN  IF Len(parts) < 2 THEN None
      ELSE IF final_type = <<>> \/ value_part = <<>> THEN None
      ELSE IF final_type \notin { T_DOMAIN, T_DOMAIN_SUFFIX, T_DOMAIN_KEYWORD,
                                  T_DOMAIN_WILDCARD, T_IP_CIDR, T_IP_CIDR6, T_IP_ASN,
                                  T_GEOIP, T_PROCESS_NAME, T_USER_AGENT } THEN None
      ELSE final_type \o <<",">> \o value_part

\* _handle_standard_format that keeps the letter case of the value
handle_standard_format_keep_case(line) ==
  LET parts      == split(line, ",")
      raw_type0  == upper(strip(parts[1]))
      value_part == strip(parts[2])
      raw_type   == IF raw_type0 = T_FULL THEN T_DOMAIN ELSE raw_type0
      final_type == TYPE_MAPPING(raw_type)
  IN  IF Len(parts) < 2 THEN None
      ELSE IF final_type = <<>> \/ value_part = <<>> THEN None
      ELSE IF final_type \in UNSUPPORTED_TYPES THEN None
      ELSE final_type \o <<",">> \o value_part

\* _handle_standard_format: a line with a comma, "TYPE,value[,...]"
handle_standard_format(line) ==
  LET parts      == split(line, ",")
      raw_type0  == upper(strip(parts[1]))
      value_part == lower(strip(parts[2]))
      raw_type   == IF raw_type0 = T_FULL THEN T_DOMAIN ELSE raw_type0
      final_type == TYPE_MAPPING(raw_type)
  IN  IF Len(parts) < 2 THEN None
      ELSE IF final_type = <<>> \/ value_part = <<>> THEN None
      ELSE IF final_type \in UNSUPPORTED_TYPES THEN None
      ELSE final_type \o <<",">> \o value_part

\* the hosts prefixes without "0.0.0.0"
HOSTS_PREFIXES_loopback_only == { <<"1", "2", "7", ".", "0", ".", "0", ".", "1">> }

HOSTS_PREFIXES == { <<"1", "2", "7", ".", "0", ".", "0", ".", "1">>,
                    <<"0", ".", "0", ".", "0", ".", "0">> }

\* the address characters with the hex letters added
VALID_IP_CHARS_hex == Digits \cup { ".", "/", ":", "a", "b", "c", "d", "e", "f" }

VALID_IP_CHARS == Digits \cup { ".", "/", ":" }

\* content.split(char)[0] for each char of ["^", "$"] that content holds
truncate_adblock(content) ==
  LET c1 == IF has_char(content, "^") THEN split(content, "^")[1] ELSE content
  IN  IF has_char(c1, "$") THEN split(c1, "$")[1] ELSE c1

\* _handle_compatibility_format that matches on the line as it came, not on
\* its lower-case copy
handle_compatibility_format_keep_case(line) ==
  LET line_lower == line
      parts      == split_ws(line_lower)
      adblock    == strip(truncate_adblock(SubSeq(line_lower, 3, Len(line_lower))))
      dotted     == strip(lstrip_char(line_lower, "."))
  IN  IF (\E p \in HOSTS_PREFIXES : startswith(line_lower, p)) /\ Len(parts) >= 2
        THEN T_DOMAIN \o <<",">> \o strip(parts[Len(parts)])
      ELSE IF startswith(line_lower, <<"|", "|">>) /\ adblock # <<>>
        THEN T_DOMAIN_SUFFIX \o <<",">> \o adblock
      ELSE IF startswith(line_lower, <<".">>) /\ dotted # <<>>
        THEN T_DOMAIN_SUFFIX \o <<",">> \o dotted
      ELSE IF line_lower = <<>>
        THEN IndexError                            \* line_lower[0]
      ELSE IF line_lower[1] \in Digits
              /\ \A i \in 1..Len(line_lower) : line_lower[i] \in VALID_IP_CHARS
        THEN IF has_char(line_lower, ":")
               THEN T_IP_CIDR6 \o <<",">> \o line_lower
               ELSE T_IP_CIDR \o <<",">> \o line_lower
      ELSE IF has_char(line_lower, ".") /\ ~has_char(line_lower, "/")
              /\ ~has_char(line_lower, " ")
        THEN T_DOMAIN_SUFFIX \o <<",">> \o line_lower
      ELSE None

\* _handle_compatibility_format: a line without a comma; the scenarios are
\* tried in order and a scenario that does not return falls through to the next.
handle_compatibility_format(line) ==
  LET line_lower == lower(line)
      parts      == split_ws(line_lower)
      adblock    == strip(truncate_adblock(SubSeq(line_lower, 3, Len(line_lower))))
      dotted     == strip(lstrip_char(line_lower, "."))
  IN  IF (\E p \in HOSTS_PREFIXES : startswith(line_lower, p)) /\ Len(parts) >= 2
        THEN T_DOMAIN \o <<",">> \o strip(parts[Len(parts)])
      ELSE IF startswith(line_lower, <<"|", "|">>) /\ adblock # <<>>
        THEN T_DOMAIN_SUFFIX \o <<",">> \o adblock
      ELSE IF startswith(line_lower, <<".">>) /\ dotted # <<>>
        THEN T_DOMAIN_SUFFIX \o <<",">> \o dotted
      ELSE IF line_lower = <<>>
        THEN IndexError                            \* line_lower[0]
      ELSE IF line_lower[1] \in Digits
              /\ \A i \in 1..Len(line_lower) : line_lower[i] \in VALID_IP_CHARS
        THEN IF has_char(line_lower, ":")
               THEN T_IP_CIDR6 \o <<",">> \o line_lower
               ELSE T_IP_CIDR \o <<",">> \o line_lower
      ELSE IF has_char(line_lower, ".") /\ ~has_char(line_lower, "/")
              /\ ~has_char(line_lower, " ")
        THEN T_DOMAIN_SUFFIX \o <<",">> \o line_lower
      ELSE None

\* the line after steps 2 and 4: cut at the first "#", then strip
strip_comment(line) ==
  strip(IF has_char(line, "#") THEN split(line, "#")[1] ELSE line)

\* the line after step 7: the YAML list marker "- " removed
strip_yaml_marker(line) ==
  IF startswith(line, <<"-", " ">>) THEN strip(SubSeq(line, 3, Len(line))) ELSE line

\* clean_rule_line without step 5, the second emptiness check
clean_rule_line_no_recheck(line) ==
  LET l1 == strip_comment(line)
      l2 == strip_yaml_marker(l1)
  IN  IF line = None \/ line = <<>> THEN None
      ELSE IF startswith(l1, <<"!">>) THEN None
      ELSE IF startswith(l1, <<"#", "#">>) \/ startswith(l1, <<"#", "@", "#">>) THEN None
      ELSE IF has_char(l2, ",") THEN handle_standard_format(l2)
      ELSE handle_compatibility_format(l2)

\* clean_rule_line: one raw text line to "TYPE,value", or None
clean_rule_line(line) ==
  LET l1 == strip_comment(line)
      l2 == strip_yaml_marker(l1)
  IN  IF line = None \/ line = <<>> THEN None
      ELSE IF startswith(l1, <<"!">>) THEN None
      ELSE IF l1 = <<>> THEN None
      ELSE IF startswith(l1, <<"#", "#">>) \/ startswith(l1, <<"#", "@", "#">>) THEN None
      ELSE IF has_char(l2, ",") THEN handle_standard_format(l2)
      ELSE handle_compatibility_format(l2)

\* ------------------------------------------------------------------------
\* core/constants.py (not among the sources; the priority table follows the
\* specification's description: exact domains before suffixes before keyword
\* and wildcard rules before address rules before the remaining types)
\* ------------------------------------------------------------------------

DEFAULT_PRIORITY == 99

\* RULE_TYPE_PRIORITY.get(rule_type, DEFAULT_PRIORITY)
RULE_TYPE_PRIORITY(rule_type) ==
  CASE rule_type = T_DOMAIN          -> 1
    [] rule_type = T_DOMAIN_SUFFIX   -> 2
    [] rule_type = T_DOMAIN_KEYWORD  -> 3
    [] rule_type = T_DOMAIN_WILDCARD -> 4
    [] rule_type = T_IP_CIDR         -> 5
    [] rule_type = T_IP_CIDR6        -> 6
    [] rule_type = T_IP_ASN          -> 7
    [] rule_type = T_GEOIP           -> 8
    [] rule_type = T_USER_AGENT      -> 9
    [] rule_type = T_PROCESS_NAME    -> 10
    [] OTHER                         -> DEFAULT_PRIORITY

\* ------------------------------------------------------------------------
\* core/rule/processor_rule.py
\* ------------------------------------------------------------------------

\* get_sort_key that returns the priority alone
get_sort_key_priority_only(line) ==
  IF has_char(line, ",")
    THEN << RULE_TYPE_PRIORITY(upper(strip(first_field(line, ",")))), <<>> >>
    ELSE << DEFAULT_PRIORITY, <<>> >>

\* get_sort_key: the pair (priority, line)
get_sort_key(line) ==
  IF has_char(line, ",")
    THEN << RULE_TYPE_PRIORITY(upper(strip(first_field(line, ",")))), line >>
    ELSE << DEFAULT_PRIORITY, line >>

RECURSIVE le_from(_, _, _)
\* a[i..] <= b[i..] when a and b agree before index i
le_from(a, b, i) ==
  IF i > Len(a) THEN TRUE
  ELSE IF i > Len(b) THEN FALSE
  ELSE IF a[i] # b[i] THEN Ord[a[i]] < Ord[b[i]]
  ELSE le_from(a, b, i + 1)

\* a <= b for two str: lexicographic by code point
str_le(a, b) == le_from(a, b, 1)

\* the comparison of two sort keys by their lines alone
key_le_by_line(k1, k2) == str_le(k1[2], k2[2])

\* k1 <= k2 for two sort keys: Python's tuple comparison
key_le(k1, k2) ==
  IF k1[1] # k2[1] THEN k1[1] < k2[1] ELSE str_le(k1[2], k2[2])

\* the number of pairs <<key, item>> of a sorted list whose key is <= k
count_le(sorted, k) == Cardinality({ i \in 1..Len(sorted) : key_le(sorted[i][1], k) })

\* the pair x placed after every pair of the sorted list whose key is <= its own
insert_by_key(sorted, x) ==
  LET n == count_le(sorted, x[1])
  IN  SubSeq(sorted, 1, n) \o << x >> \o SubSeq(sorted, n + 1, Len(sorted))

RECURSIVE sort_pairs(_, _)
\* the first n pairs <<key, item>> of a list, sorted by key, equal keys in
\* their order in the list
sort_pairs(pairs, n) ==
  IF n = 0 THEN <<>> ELSE insert_by_key(sort_pairs(pairs, n - 1), pairs[n])

\* the list left as it is
sort_by_key_unsorted(list) == list

\* list.sort(key=get_sort_key): the key of each element is computed once, and
\* the sort is stable and ascending
sort_by_key(list) ==
  LET pairs  == [ i \in 1..Len(list) |-> << get_sort_key(list[i]), list[i] >> ]
      sorted == sort_pairs(pairs, Len(list))
  IN  [ i \in 1..Len(list) |-> sorted[i][2] ]

RECURSIVE list_of_set(_)
\* list(a_set): the iteration order of a set is not specified, so every
\* enumeration of the set is a possible value
list_of_set(S) ==
  IF S = {} THEN { <<>> }
  ELSE UNION { { << x >> \o rest : rest \in list_of_set(S \ {x}) } : x \in S }

\* the cleaned entries of a configured list (ignored_rules, extra_rules)
CleanItems(items) == { clean_rule_line(items[i]) : i \in 1..Len(items) }

\* the set built by the loops with the void entries kept in it
load_rule_set_keep_void(items) == CleanItems(items)

\* the set built by the loops over ignored_rules and extra_rules
load_rule_set(items) == { c \in CleanItems(items) : ~falsy(c) }

\* ignored_set holding the configured entries as written, not cleaned
load_ignored_set_raw(cfg) ==
  { cfg.ignored_rules[i] : i \in 1..Len(cfg.ignored_rules) } \ { <<>> }

\* step 1: ignored_set
load_ignored_set(cfg) == load_rule_set(cfg.ignored_rules)

\* vip_set with the ignored rules taken out
load_vip_set_filtered(cfg) ==
  load_rule_set(cfg.extra_rules) \ load_rule_set(cfg.ignored_rules)

\* step 2: vip_set
load_vip_set(cfg) == load_rule_set(cfg.extra_rules)

\* the keywords as configured, not lower-cased
lower_keywords_as_given(keywords) == keywords

\* [kw.lower() for kw in keywords]
lower_keywords(keywords) == [ i \in 1..Len(keywords) |-> lower(keywords[i]) ]

\* any(kw in line_lower for kw in keywords)
any_keyword(line_lower, keywords) ==
  \E i \in 1..Len(keywords) : contains(line_lower, keywords[i])

\* the filter check with `all` in place of `any` for the exclude keywords
is_filtered_all_exclude(clean_line, ignored_set, exclude_keywords, include_keywords) ==
  IF clean_line \in ignored_set THEN TRUE
  ELSE LET line_lower == lower(clean_line)
       IN  IF exclude_keywords # <<>>
              /\ \A i \in 1..Len(exclude_keywords) :
                   contains(line_lower, exclude_keywords[i])
             THEN TRUE
           ELSE IF include_keywords # <<>>
             THEN ~any_keyword(line_lower, include_keywords)
           ELSE FALSE

\* the filter check of one cleaned line
is_filtered(clean_line, ignored_set, exclude_keywords, include_keywords) ==
  IF clean_line \in ignored_set THEN TRUE
  ELSE LET line_lower == lower(clean_line)
       IN  IF any_keyword(line_lower, exclude_keywords) THEN TRUE
           ELSE IF include_keywords # <<>>
             THEN ~any_keyword(line_lower, include_keywords)
           ELSE FALSE

\* the locals of process_rules before the first raw line
LoopStart ==
  [ common_set |-> {}, count_invalid |-> 0, count_vip_dupe |-> 0,
    count_source_dupe |-> 0, count_filtered |-> 0, raised |-> FALSE ]

\* one iteration without the check against vip_set
process_line_no_vip_check(acc, line, vip_set, ignored_set, exclude_keywords, include_keywords) ==
  LET clean_line == clean_rule_line(line)
  IN  IF acc.raised THEN acc
      ELSE IF clean_line = IndexError THEN [acc EXCEPT !.raised = TRUE]
      ELSE IF falsy(clean_line) THEN [acc EXCEPT !.count_invalid = @ + 1]
      ELSE IF clean_line \in acc.common_set
        THEN [acc EXCEPT !.count_source_dupe = @ + 1]
      ELSE IF is_filtered(clean_line, ignored_set, exclude_keywords, include_keywords)
        THEN [acc EXCEPT !.count_filtered = @ + 1]
      ELSE [acc EXCEPT !.common_set = @ \cup {clean_line}]

\* one iteration of `for line in raw_rules`
process_line(acc, line, vip_set, ignored_set, exclude_keywords, include_keywords) ==
  LET clean_line == clean_rule_line(line)
  IN  IF acc.raised THEN acc
      ELSE IF clean_line = IndexError THEN [acc EXCEPT !.raised = TRUE]
      ELSE IF falsy(clean_line) THEN [acc EXCEPT !.count_invalid = @ + 1]
      ELSE IF clean_line \in vip_set THEN [acc EXCEPT !.count_vip_dupe = @ + 1]
      ELSE IF clean_line \in acc.common_set
        THEN [acc EXCEPT !.count_source_dupe = @ + 1]
      ELSE IF is_filtered(clean_line, ignored_set, exclude_keywords, include_keywords)
        THEN [acc EXCEPT !.count_filtered = @ + 1]
      ELSE [acc EXCEPT !.common_set = @ \cup {clean_line}]

RECURSIVE process_lines(_, _, _, _, _)
\* the whole loop `for line in raw_rules`
process_lines(raw_rules, vip_set, ignored_set, exclude_keywords, include_keywords) ==
  IF raw_rules = <<>> THEN LoopStart
  ELSE process_line(
         process_lines(SubSeq(raw_rules, 1, Len(raw_rules) - 1),
                       vip_set, ignored_set, exclude_keywords, include_keywords),
         raw_rules[Len(raw_rules)],
         vip_set, ignored_set, exclude_keywords, include_keywords)

\* a_list = list(a_set); a_list.sort(key=get_sort_key): the possible results
sorted_lists(a_set) == { sort_by_key(a_list) : a_list \in list_of_set(a_set) }

\* the two lists sorted as one
merge_sorted_as_one(vip_list, common_list) == sort_by_key(vip_list \o common_list)

\* final_result = vip_list + common_list
merge(vip_list, common_list) == vip_list \o common_list

NoStats ==
  [ source |-> 0, vip |-> 0, invalid |-> 0, dup_vip |-> 0, dup_src |-> 0,
    filtered |-> 0, total |-> 0 ]

\* what leaves process_rules when clean_rule_line raises
Raised == [ exc |-> TRUE, final_result |-> <<>>, stats |-> NoStats ]

\* process_rules(cfg, raw_rules): the set of its possible outcomes, one for
\* each iteration order of the two sets
process_rules(cfg, raw_rules) ==
  LET ignored_set      == load_ignored_set(cfg)
      exclude_keywords == lower_keywords(cfg.exclude_keywords)
      include_keywords == lower_keywords(cfg.include_keywords)
      vip_set          == load_vip_set(cfg)
      acc == process_lines(raw_rules, vip_set, ignored_set,
                           exclude_keywords, include_keywords)
  IN  IF IndexError \in CleanItems(cfg.ignored_rules) \cup CleanItems(cfg.extra_rules)
         \/ acc.raised
        THEN { Raised }
      ELSE { [ exc          |-> FALSE,
               final_result |-> merge(vip_list, common_list),
               stats        |-> [ source   |-> Len(raw_rules),
                                  vip      |-> Cardinality(vip_set),
                                  invalid  |-> acc.count_invalid,
                                  dup_vip  |-> acc.count_vip_dupe,
                                  dup_src  |-> acc.count_source_dupe,
                                  filtered |-> acc.count_filtered,
                                  total    |-> Len(vip_list) + Len(common_list) ] ]
             : vip_list \in sorted_lists(vip_set),
               common_list \in sorted_lists(acc.common_set) }

\* ------------------------------------------------------------------------
\* core/rule/formatter_rule_clash.py
\* ------------------------------------------------------------------------

T_SRC_IP_CIDR == <<"S", "R", "C", "-", "I", "P", "-", "C", "I", "D", "R">>
T_DST_PORT    == <<"D", "S", "T", "-", "P", "O", "R", "T">>
T_SRC_PORT    == <<"S", "R", "C", "-", "P", "O", "R", "T">>

\* line.split(c, 1): the line cut at its first separator c
split_once(s, c) ==
  LET i == find_char(s, c)
  IN  IF i = 0 THEN << s >> ELSE << SubSeq(s, 1, i - 1), SubSeq(s, i + 1, Len(s)) >>

\* TYPE_BUCKETS["DOMAIN"] and TYPE_BUCKETS["IP"]
TYPE_BUCKETS_DOMAIN == { T_DOMAIN, T_DOMAIN_SUFFIX, T_DOMAIN_KEYWORD, T_DOMAIN_WILDCARD }
TYPE_BUCKETS_IP == { T_IP_CIDR, T_IP_CIDR6, T_GEOIP, T_SRC_IP_CIDR, T_IP_ASN }

\* the keys of CLASH_MAPPING
CLASH_MAPPING_keys ==
  { T_DOMAIN, T_DOMAIN_SUFFIX, T_DOMAIN_KEYWORD, T_DOMAIN_WILDCARD, T_IP_CIDR,
    T_IP_CIDR6, T_GEOIP, T_SRC_IP_CIDR, T_PROCESS_NAME, T_DST_PORT, T_SRC_PORT,
    T_IP_ASN }

\* CLASH_MAPPING[std_type], for a key std_type
CLASH_MAPPING(std_type) ==
  IF std_type = T_DOMAIN_WILDCARD THEN T_DOMAIN_SUFFIX ELSE std_type

\* the names of the three buckets
B_Domain    == <<"D", "o", "m", "a", "i", "n">>
B_IP        == <<"I", "P">>
B_Classical == <<"C", "l", "a", "s", "s", "i", "c", "a", "l">>

BucketKeys == { B_Domain, B_IP, B_Classical }

S_payload    == <<"p", "a", "y", "l", "o", "a", "d", ":">>
S_no_resolve == <<",", "n", "o", "-", "r", "e", "s", "o", "l", "v", "e">>

\* COMMENT_SYMBOL, the same in the three formatters
COMMENT_SYMBOL == <<"#">>

\* common_headers: "payload:" and one comment line for each configured header
clash_common_headers(header_lines) ==
  << S_payload >>
    \o (IF falsy(header_lines) THEN <<>>
        ELSE [ i \in 1..Len(header_lines) |->
                 <<" ", " ">> \o COMMENT_SYMBOL \o <<" ">> \o header_lines[i] ])

\* suffix_param with the parameter given to every rule of the IP bucket
clash_suffix_param_ip_bucket(clash_type) ==
  IF clash_type \in TYPE_BUCKETS_IP THEN S_no_resolve ELSE <<>>

\* suffix_param: ",no-resolve" for the two CIDR types
clash_suffix_param(clash_type) ==
  IF clash_type \in { T_IP_CIDR, T_IP_CIDR6 } THEN S_no_resolve ELSE <<>>

\* the bucket of a rule type, with every type outside the domain list taken
\* for an address type
clash_bucket_two_way(std_type) ==
  IF std_type \in TYPE_BUCKETS_DOMAIN THEN B_Domain ELSE B_IP

\* step 3 of the loop: the bucket a rule of type std_type is appended to
clash_bucket(std_type) ==
  IF std_type \in TYPE_BUCKETS_DOMAIN THEN B_Domain
  ELSE IF std_type \in TYPE_BUCKETS_IP THEN B_IP
  ELSE B_Classical

\* buckets and has_data before the loop
clash_start(header_lines) ==
  [ buckets  |-> [ key \in BucketKeys |-> clash_common_headers(header_lines) ],
    has_data |-> [ key \in BucketKeys |-> FALSE ] ]

\* one iteration of the loop over rules
clash_step(acc, line) ==
  LET parts        == split_once(line, ",")
      std_type     == upper(strip(parts[1]))
      value        == strip(parts[2])
      clash_type   == CLASH_MAPPING(std_type)
      final_line   == <<" ", " ", "-", " ">> \o clash_type \o <<",">> \o value
                        \o clash_suffix_param(clash_type)
      key          == clash_bucket(std_type)
  IN  IF ~has_char(line, ",") THEN acc
      ELSE IF std_type \notin CLASH_MAPPING_keys THEN acc
      ELSE [ buckets  |-> [ acc.buckets EXCEPT ![key] = Append(@, final_line) ],
             has_data |-> [ acc.has_data EXCEPT ![key] = TRUE ] ]

RECURSIVE clash_loop(_, _)
\* the loop over rules, from the accumulator acc
clash_loop(acc, rules) ==
  IF rules = <<>> THEN acc ELSE clash_loop(clash_step(acc, Head(rules)), Tail(rules))

MANDATORY_TYPES == { B_Domain, B_IP, B_Classical }

\* final_output with a bucket only when it has data
clash_final_output_has_data(acc) ==
  [ key \in { k \in BucketKeys : acc.has_data[k] } |-> acc.buckets[key] ]

\* final_output: the buckets that are mandatory or have data
clash_final_output(acc) ==
  [ key \in { k \in BucketKeys : k \in MANDATORY_TYPES \/ acc.has_data[k] } |->
      acc.buckets[key] ]

\* formatter_rule_clash.format_rules(rules, policy_tag, header_lines): a dict
\* from bucket name to the lines of the bucket
clash_format_rules(rules, policy_tag, header_lines) ==
  clash_final_output(clash_loop(clash_start(header_lines), rules))

\* ------------------------------------------------------------------------
\* core/rule/formatter_rule_quantumultx.py
\* ------------------------------------------------------------------------

\* the keys of QX_MAPPING
QX_MAPPING_keys ==
  { T_DOMAIN, T_DOMAIN_SUFFIX, T_DOMAIN_WILDCARD, T_DOMAIN_KEYWORD, T_USER_AGENT,
    T_IP_CIDR, T_IP_CIDR6, T_GEOIP, T_IP_ASN }

\* QX_MAPPING with "HOST" as the keyword of DOMAIN-SUFFIX
QX_MAPPING_suffix_as_host(std_type) ==
  CASE std_type = T_DOMAIN          -> T_HOST
    [] std_type = T_DOMAIN_SUFFIX   -> T_HOST
    [] std_type = T_DOMAIN_WILDCARD -> T_HOST_WILDCARD
    [] std_type = T_DOMAIN_KEYWORD  -> T_HOST_KEYWORD
    [] std_type = T_IP_CIDR6        -> T_IP6_CIDR
    [] OTHER                        -> std_type

\* QX_MAPPING[std_type], for a key std_type
QX_MAPPING(std_type) ==
  CASE std_type = T_DOMAIN          -> T_HOST
    [] std_type = T_DOMAIN_SUFFIX   -> T_HOST_SUFFIX
    [] std_type = T_DOMAIN_WILDCARD -> T_HOST_WILDCARD
    [] std_type = T_DOMAIN_KEYWORD  -> T_HOST_KEYWORD
    [] std_type = T_IP_CIDR6        -> T_IP6_CIDR
    [] OTHER                        -> std_type

\* step 1: one comment line for each configured header
quantumultx_headers(header_lines) ==
  IF falsy(header_lines) THEN <<>>
  ELSE [ i \in 1..Len(header_lines) |-> COMMENT_SYMBOL \o <<" ">> \o header_lines[i] ]

\* one iteration of the loop that passes a rule of an unknown type on unchanged
quantumultx_step_pass_unknown(formatted, line, policy_tag) ==
  LET parts    == split_once(line, ",")
      std_type == parts[1]
      value    == parts[2]
  IN  IF ~has_char(line, ",") THEN formatted
      ELSE IF std_type \notin QX_MAPPING_keys THEN Append(formatted, line)
      ELSE Append(formatted, QX_MAPPING(std_type) \o <<",">> \o value \o <<",">> \o policy_tag)

\* one iteration of the loop over rules
quantumultx_step(formatted, line, policy_tag) ==
  LET parts    == split_once(line, ",")
      std_type == parts[1]
      value    == parts[2]
  IN  IF ~has_char(line, ",") THEN formatted
      ELSE IF std_type \notin QX_MAPPING_keys THEN formatted
      ELSE Append(formatted, QX_MAPPING(std_type) \o <<",">> \o value \o <<",">> \o policy_tag)

RECURSIVE quantumultx_loop(_, _, _)
\* the loop over rules, from the list formatted
quantumultx_loop(formatted, rules, policy_tag) ==
  IF rules = <<>> THEN formatted
  ELSE quantumultx_loop(quantumultx_step(formatted, Head(rules), policy_tag),
                        Tail(rules), policy_tag)

\* formatter_rule_quantumultx.format_rules(rules, policy_tag, header_lines)
quantumultx_format_rules(rules, policy_tag, header_lines) ==
  quantumultx_loop(quantumultx_headers(header_lines), rules, policy_tag)

\* ------------------------------------------------------------------------
\* core/manager.py: one iteration of the loop of _run_phase
\* ------------------------------------------------------------------------

\* Logger.WORD_PROCESS_FAIL and Logger.WORD_CRASH, texts in Chinese: each is one
\* element here, a character that no task name holds
WORD_PROCESS_FAIL == <<"PROCESS_FAIL">>
WORD_CRASH        == <<"CRASH">>

\* str(e) for the TypeError of "name in <str>" with a name that is an int
TypeErrorText ==
  <<"'", "i", "n", " ", "<", "s", "t", "r", "i", "n", "g", ">", "'", " ", "r", "e", "q",
    "u", "i", "r", "e", "s", " ", "s", "t", "r", "i", "n", "g", " ", "a", "s", " ", "l",
    "e", "f", "t", " ", "o", "p", "e", "r", "a", "n", "d", ",", " ", "n", "o", "t", " ",
    "i", "n", "t">>

\* str(e) for the exception a task raises
TaskErrorText == <<"x">>

\* what _process_single_task does: returns True, returns False, raises
O_True  == "True"
O_False == "False"
O_raise == "raise"
Outcomes == { O_True, O_False, O_raise }

\* the category of the phase, one of EXECUTION_ORDER
category == "rule"

\* self.stats = {}: a dict is a function on its keys
NoPhaseStats == << >>

\* f"{name}: {Logger.WORD_PROCESS_FAIL}"
err_msg(name) == name.text \o <<":", " ">> \o WORD_PROCESS_FAIL

\* f"{name} ({Logger.WORD_CRASH}: {e})"
crash_msg(name, e) ==
  name.text \o <<" ", "(">> \o WORD_CRASH \o <<":", " ">> \o e \o <<")">>

\* the except branch: the task is counted as failed and the crash recorded
except_branch(m, name, e) ==
  [ m EXCEPT !.fail_count     = @ + 1,
             !.summary_errors = Append(@, crash_msg(name, e)) ]

\* the else branch: the task is counted as failed, and recorded unless the
\* last entry of summary_errors holds its name; "name in <str>" raises
\* TypeError for a name that is no str, and the except branch runs then
else_branch(m, name) ==
  LET counted == [ m EXCEPT !.fail_count = @ + 1 ]
      errors  == m.summary_errors
  IN  IF errors = <<>>
        THEN [ counted EXCEPT !.summary_errors = Append(@, err_msg(name)) ]
      ELSE IF ~name.is_str
        THEN except_branch(counted, name, TypeErrorText)
      ELSE IF ~contains(errors[Len(errors)], name.text)
        THEN [ counted EXCEPT !.summary_errors = Append(@, err_msg(name)) ]
      ELSE counted

\* the body of the loop for the next task, whose call does outcome
run_task(m, outcome) ==
  LET i    == m.done + 1
      name == m.configs[i].name
      seen == [ m EXCEPT !.done      = i,
                         !.attempted = Append(@, i),
                         !.outcomes  = Append(@, outcome) ]
  IN  CASE outcome = O_True  -> [ seen EXCEPT !.success_count = @ + 1 ]
        [] outcome = O_False -> else_branch(seen, name)
        [] outcome = O_raise -> except_branch(seen, name, TaskErrorText)

\* self.stats after self.stats[category] = {...}
phase_stats(m) ==
  [ c \in DOMAIN m.stats \cup { category } |->
      IF c = category
        THEN [ total |-> Len(m.configs), success |-> m.success_count,
               fail |-> m.fail_count ]
        ELSE m.stats[c] ]

\* ------------------------------------------------------------------------
\* Inputs
\* ------------------------------------------------------------------------

\* the longest raw-line sequence
MaxLines == 3

L_DOMAIN_Example == <<"D", "O", "M", "A", "I", "N", ",", "E", "x", "a", "m", "p", "l", "e", ".", "c", "o", "m">>
L_example        == <<"e", "x", "a", "m", "p", "l", "e", ".", "c", "o", "m">>
L_example_Proxy  == <<"e", "x", "a", "m", "p", "l", "e", ".", "c", "o", "m", ",", "P", "r", "o", "x", "y">>
L_host_EXAMPLE   == <<"h", "o", "s", "t", ",", "E", "X", "A", "M", "P", "L", "E", ".", "C", "O", "M">>
L_comment        == <<" ", "#", " ", "c">>
L_ip             == <<"1", ".", "2", ".", "3", ".", "4">>
L_yaml_bang      == <<"-", " ", "!", "x", ",", "y">>
L_dot            == <<".", "b", ".", "c">>

K_COM    == <<"C", "O", "M">>
K_Suffix == <<"S", "u", "f", "f", "i", "x">>
K_proxy  == <<"p", "r", "o", "x", "y">>

\* the raw lines a download can hold
RawLines == { L_DOMAIN_Example, L_example, L_example_Proxy, L_comment }

\* all sequences over S of length at most n
SeqsUpTo(S, n) == UNION { [1..k -> S] : k \in 0..n }

\* the "filters" sections of a task's configuration
Configs ==
  [ extra_rules      : { <<>>, << L_example, <<>>, L_dot >>, << L_host_EXAMPLE >>,
                         << L_yaml_bang, L_ip >> },
    ignored_rules    : { <<>>, << L_comment, L_example >> },
    exclude_keywords : { <<>>, << K_Suffix >> },
    include_keywords : { <<>>, << K_proxy >> } ]

\* lines that are no rules: empty, blank, a comment, punctuation, one character
J_empty   == <<>>
J_blank   == <<" ", " ">>
J_comment == <<"#", "c">>
J_comma   == <<",">>
J_adblock == <<"|", "|", "^">>
J_dash    == <<"-">>
J_dot     == <<".">>

JunkLines == { J_empty, J_blank, J_comment, J_comma, J_adblock, J_dash, J_dot }

\* configurations whose lists hold such lines
JunkConfigs ==
  [ extra_rules      : { <<>>, << J_blank, J_dot >>, << J_dash, J_adblock >> },
    ignored_rules    : { <<>>, << J_comment, J_comma, J_dot >> },
    exclude_keywords : { <<>>, << J_empty >>, << J_comma >> },
    include_keywords : { <<>>, << J_dot >> } ]

\* a "filters" section without entries
NoFilters ==
  [ extra_rules |-> <<>>, ignored_rules |-> <<>>,
    exclude_keywords |-> <<>>, include_keywords |-> <<>> ]

\* the longest raw-line sequence given to the decoders
MaxDecoded == 2

D_HOST_SUFFIX_Google_dot == <<"H", "O", "S", "T", "-", "S", "U", "F", "F", "I", "X", ",", "G", "o", "o", "g", "l", "e", ".", "C", "O", "M", ".">>
D_HOST_SUFFIX_Google     == <<"H", "O", "S", "T", "-", "S", "U", "F", "F", "I", "X", ",", "G", "o", "o", "g", "l", "e", ".", "C", "O", "M">>
D_host_suffix_google     == <<"h", "o", "s", "t", "-", "s", "u", "f", "f", "i", "x", ",", "g", "o", "o", "g", "l", "e", ".", "c", "o", "m">>
D_DST_PORT               == <<"D", "S", "T", "-", "P", "O", "R", "T", ",", "8", "0">>
D_DOMAIN_SET             == <<"D", "O", "M", "A", "I", "N", "-", "S", "E", "T", ",", "s", "o", "m", "e", "l", "i", "s", "t">>
D_rule_set               == <<"r", "u", "l", "e", "-", "s", "e", "t", ",", "X", ",", "y">>
D_Url_Regex              == <<"U", "r", "l", "-", "R", "e", "g", "e", "x", ",", "a">>
D_hosts_127              == <<"1", "2", "7", ".", "0", ".", "0", ".", "1", " ", "a", "d", ".", "t", "r", "a", "c", "k", "e", "r", ".", "c", "o", "m">>
D_hosts_0                == <<"0", ".", "0", ".", "0", ".", "0", " ", "A", ".", "b", " ", "c", ".", "D">>
D_hosts_10               == <<"1", "0", ".", "0", ".", "0", ".", "1", " ", "a", "d", ".", "t", "r", "a", "c", "k", "e", "r", ".", "c", "o", "m">>

\* raw lines in the syntaxes the two decoders read
DecoderLines ==
  { D_HOST_SUFFIX_Google_dot, D_HOST_SUFFIX_Google, D_host_suffix_google,
    L_example_Proxy, D_DST_PORT, D_DOMAIN_SET, D_rule_set, D_Url_Regex,
    D_hosts_127, D_hosts_0, D_hosts_10, L_ip }

\* configurations without filters, with and without curated rules
DecoderConfigs ==
  [ extra_rules      : { <<>>, << D_DOMAIN_SET, D_hosts_10 >> },
    ignored_rules    : { <<>> },
    exclude_keywords : { <<>> },
    include_keywords : { <<>> } ]

Y_PROCESS_NAME == <<"P", "R", "O", "C", "E", "S", "S", "-", "N", "A", "M", "E", ",", "f", "o", "o">>
Y_ASN          == <<"A", "S", "N", ",", "1">>
Y_FULL         == <<"F", "U", "L", "L", ",", "A", ".", "b">>
Y_IP6_CIDR     == <<"I", "P", "6", "-", "C", "I", "D", "R", ",", "1", ":", ":", "2">>
Y_IP_ASN       == <<"I", "P", "-", "A", "S", "N", ",", "1">>
Y_host         == <<"h", "o", "s", "t", ",", "X", ".", "y">>
Y_fe80         == <<"f", "e", "8", "0", ":", ":", "1">>
Y_loopback     == <<":", ":", "1">>
Y_2001_db8     == <<"2", "0", "0", "1", ":", "d", "b", "8", ":", ":", "/", "3", "2">>
Y_1_2_64       == <<"1", ":", ":", "2", "/", "6", "4">>
Y_HOST_KEYWORD == <<"H", "O", "S", "T", "-", "K", "E", "Y", "W", "O", "R", "D", ",", "G", "o", "o">>
Y_GEOIP        == <<"G", "E", "O", "I", "P", ",", "C", "N">>

\* raw lines with explicit types and their synonyms, and IPv6 addresses
TypedLines ==
  { Y_PROCESS_NAME, Y_ASN, Y_FULL, Y_IP6_CIDR, Y_IP_ASN, Y_host, Y_fe80, Y_loopback,
    Y_2001_db8, Y_1_2_64, Y_HOST_KEYWORD, Y_GEOIP, D_HOST_SUFFIX_Google, L_ip }

\* the most task configurations in a category
MaxTasks == 3

\* the names of tasks: YAML gives a str for "name: a" and an int for "name: 123"
N_a   == [ is_str |-> TRUE, text |-> <<"a">> ]
N_ab  == [ is_str |-> TRUE, text |-> <<"a", "b">> ]
N_123 == [ is_str |-> FALSE, text |-> <<"1", "2", "3">> ]

\* the task configurations load_all_configs can return
TaskConfigs == [ name : { N_a, N_ab, N_123 } ]

\* the longest rule list given to a formatter
MaxRules == 3

R_DOMAIN_a    == <<"D", "O", "M", "A", "I", "N", ",", "a", ".", "c", "o", "m">>
R_IP_CIDR     == <<"I", "P", "-", "C", "I", "D", "R", ",", "1", ".", "2", ".", "3", ".", "0", "/", "2", "4">>
R_PROCESS_foo == <<"P", "R", "O", "C", "E", "S", "S", "-", "N", "A", "M", "E", ",", "f", "o", "o">>
R_WILDCARD    == <<"D", "O", "M", "A", "I", "N", "-", "W", "I", "L", "D", "C", "A", "R", "D", ",", "*", ".", "b">>
R_SRC_IP_CIDR == <<"S", "R", "C", "-", "I", "P", "-", "C", "I", "D", "R", ",", "1", ".", "2", ".", "3", ".", "4">>
R_USER_AGENT  == <<"U", "S", "E", "R", "-", "A", "G", "E", "N", "T", ",", "x">>
R_IP_ASN      == <<"I", "P", "-", "A", "S", "N", ",", "1">>

\* rule lines handed to a formatter: rules of the three buckets, a rule of a
\* type without mapping, and a line without a comma
FormatterRules ==
  { R_DOMAIN_a, R_IP_CIDR, R_PROCESS_foo, R_WILDCARD, R_SRC_IP_CIDR, R_USER_AGENT,
    R_IP_ASN, L_example_Proxy, L_example }

P_Default == <<"D", "e", "f", "a", "u", "l", "t">>
P_Proxy   == <<"P", "r", "o", "x", "y">>

\* policy_tag of a format's parameters
PolicyTags == { P_Default, P_Proxy }

H_by_x == <<"b", "y", " ", "x">>
H_v1   == <<"v", "1">>

\* header_lines of a format's parameters: absent, empty, one line, two lines
HeaderLines == { None, <<>>, << H_v1 >>, << H_by_x, H_v1 >> }

\* ------------------------------------------------------------------------
\* The state machine: a caller runs process_rules on a download, and may run
\* it once more on the rules it returned
\* ------------------------------------------------------------------------

VARIABLES cfg, raw_rules, pc, run, final_result, stats, first_result,
          rules, policy_tag, header_lines, content, phase

vars == << cfg, raw_rules, pc, run, final_result, stats, first_result,
          rules, policy_tag, header_lines, content, phase >>

\* a Manager after construction, with the task configurations configs to load
NewManager(configs) ==
  [ configs        |-> configs,
    done           |-> 0,
    success_count  |-> 0,
    fail_count     |-> 0,
    summary_errors |-> <<>>,
    stats          |-> NoPhaseStats,
    attempted      |-> <<>>,
    outcomes       |-> <<>> ]

\* no phase is run
NoPhase == phase = NewManager(<<>>)

\* no formatter has been called
NoFormat ==
  /\ rules = <<>>
  /\ policy_tag = P_Default
  /\ header_lines = None
  /\ content = None

\* process_rules has not been called
NoProcess ==
  /\ cfg = NoFilters
  /\ raw_rules = <<>>
  /\ run = 1
  /\ final_result = <<>>
  /\ stats = NoStats
  /\ first_result = <<>>

Init ==
  /\ cfg \in Configs
  /\ raw_rules \in SeqsUpTo(RawLines, MaxLines)
  /\ pc = "call"
  /\ run = 1
  /\ final_result = <<>>
  /\ stats = NoStats
  /\ first_result = <<>>
  /\ NoFormat
  /\ NoPhase

\* the same call on lines and configurations that are no rules
InitJunk ==
  /\ cfg \in JunkConfigs
  /\ raw_rules \in SeqsUpTo(JunkLines, MaxLines)
  /\ pc = "call"
  /\ run = 1
  /\ final_result = <<>>
  /\ stats = NoStats
  /\ first_result = <<>>
  /\ NoFormat
  /\ NoPhase

\* the same call on lines in the syntaxes of the decoders
InitDecoders ==
  /\ cfg \in DecoderConfigs
  /\ raw_rules \in SeqsUpTo(DecoderLines, MaxDecoded)
  /\ pc = "call"
  /\ run = 1
  /\ final_result = <<>>
  /\ stats = NoStats
  /\ first_result = <<>>
  /\ NoFormat
  /\ NoPhase

\* the same call on lines with explicit types and on IPv6 addresses
InitTypes ==
  /\ cfg = NoFilters
  /\ raw_rules \in SeqsUpTo(TypedLines, MaxDecoded)
  /\ pc = "call"
  /\ run = 1
  /\ final_result = <<>>
  /\ stats = NoStats
  /\ first_result = <<>>
  /\ NoFormat
  /\ NoPhase

\* a formatter is about to be called on a rule list
InitFormat ==
  /\ rules \in SeqsUpTo(FormatterRules, MaxRules)
  /\ policy_tag \in PolicyTags
  /\ header_lines \in HeaderLines
  /\ content = None
  /\ pc = "format"
  /\ NoProcess
  /\ NoPhase

\* final_data, stats = processor_func(cfg, raw_data)
CallProcessRules ==
  /\ pc = "call"
  /\ \E out \in process_rules(cfg, raw_rules) :
       /\ pc' = IF out.exc THEN "raised" ELSE "returned"
       /\ final_result' = out.final_result
       /\ stats' = out.stats
  /\ UNCHANGED << phase, cfg, raw_rules, run, first_result, rules, policy_tag, header_lines, content >>

\* the returned rules are fed back as the raw lines of a second run
Rerun ==
  /\ pc = "returned"
  /\ run = 1
  /\ raw_rules' = final_result
  /\ first_result' = final_result
  /\ run' = 2
  /\ pc' = "call"
  /\ UNCHANGED << phase, cfg, final_result, stats, rules, policy_tag, header_lines, content >>

Next == CallProcessRules \/ Rerun

Spec == Init /\ [][Next]_vars

SpecJunk == InitJunk /\ [][Next]_vars

SpecDecoders == InitDecoders /\ [][Next]_vars

SpecTypes == InitTypes /\ [][Next]_vars

\* content = formatter.format_rules(data, policy_tag=policy, header_lines=headers),
\* for the Clash formatter
ClashFormatRules ==
  /\ pc = "format"
  /\ content' = clash_format_rules(rules, policy_tag, header_lines)
  /\ pc' = "clash"
  /\ UNCHANGED << phase, cfg, raw_rules, run, final_result, stats, first_result,
                  rules, policy_tag, header_lines >>

\* the same call for the Quantumult X formatter
QuantumultxFormatRules ==
  /\ pc = "format"
  /\ content' = quantumultx_format_rules(rules, policy_tag, header_lines)
  /\ pc' = "quantumultx"
  /\ UNCHANGED << phase, cfg, raw_rules, run, final_result, stats, first_result,
                  rules, policy_tag, header_lines >>

NextFormat == ClashFormatRules \/ QuantumultxFormatRules

SpecFormat == InitFormat /\ [][NextFormat]_vars

\* self._dispatch_write(final_name, final_data, cfg): the returned rules go to
\* a formatter with the policy tag and the header lines of a format
DispatchWrite ==
  /\ pc = "returned"
  /\ run = 1
  /\ rules' = final_result
  /\ policy_tag' \in PolicyTags
  /\ header_lines' \in HeaderLines
  /\ pc' = "format"
  /\ UNCHANGED << phase, cfg, raw_rules, run, final_result, stats, first_result, content >>

\* the lines a formatter has written are the raw lines of a second run
ReadBack ==
  /\ pc = "quantumultx"
  /\ run = 1
  /\ raw_rules' = content
  /\ first_result' = final_result
  /\ run' = 2
  /\ pc' = "call"
  /\ UNCHANGED << phase, cfg, final_result, stats, rules, policy_tag, header_lines, content >>

\* _run_phase up to its loop: with no configuration it returns at once
StartPhase ==
  /\ pc = "phase"
  /\ pc' = IF Len(phase.configs) = 0 THEN "done" ELSE "task"
  /\ UNCHANGED << phase, cfg, raw_rules, run, final_result, stats, first_result,
                  rules, policy_tag, header_lines, content >>

\* one iteration of the loop: the task is called and its outcome counted
ProcessSingleTask ==
  /\ pc = "task"
  /\ phase.done < Len(phase.configs)
  /\ \E outcome \in Outcomes : phase' = run_task(phase, outcome)
  /\ UNCHANGED << pc, cfg, raw_rules, run, final_result, stats, first_result,
                  rules, policy_tag, header_lines, content >>

\* the loop is over: self.stats[category] is set
EndPhase ==
  /\ pc = "task"
  /\ phase.done = Len(phase.configs)
  /\ phase' = [ phase EXCEPT !.stats = phase_stats(phase) ]
  /\ pc' = "done"
  /\ UNCHANGED << cfg, raw_rules, run, final_result, stats, first_result,
                  rules, policy_tag, header_lines, content >>

NextPhase == StartPhase \/ ProcessSingleTask \/ EndPhase

\* _run_phase is about to be called on a Manager after construction
InitPhase ==
  /\ phase \in { NewManager(configs) : configs \in SeqsUpTo(TaskConfigs, MaxTasks) }
  /\ pc = "phase"
  /\ NoProcess
  /\ NoFormat

SpecPhase == InitPhase /\ [][NextPhase]_vars

NextRoundTrip == CallProcessRules \/ DispatchWrite \/ QuantumultxFormatRules \/ ReadBack

SpecRoundTrip == InitTypes /\ [][NextRoundTrip]_vars

\* ------------------------------------------------------------------------
\* Properties of process_rules
\* ------------------------------------------------------------------------

Returned == pc = "returned"

\* the elements of a list
Range(list) == { list[i] : i \in 1..Len(list) }

\* the canonical VIP rules and the canonical ignored rules of the configuration
VipSet == { c \in { clean_rule_line(cfg.extra_rules[i]) : i \in 1..Len(cfg.extra_rules) } :
            c # None }
IgnoredSet == { c \in { clean_rule_line(cfg.ignored_rules[i]) : i \in 1..Len(cfg.ignored_rules) } :
                c # None }

\* the positions of the raw lines that clean_rule_line maps into the set S
LinesInto(S) == { i \in 1..Len(raw_rules) : clean_rule_line(raw_rules[i]) \in S }

\* the type field of a canonical rule and its priority
RuleType(rule) == split(rule, ",")[1]
Priority(rule) == RULE_TYPE_PRIORITY(RuleType(rule))

\* a may stand immediately before b in an ordered list
InOrder(a, b) ==
  \/ Priority(a) < Priority(b)
  \/ Priority(a) = Priority(b) /\ str_le(a, b)

\* C1: the returned list holds no rule twice, neither inside the VIP group,
\* nor inside the common group, nor once in each.
C1_NoDuplicates ==
  Returned =>
    \A i, j \in 1..Len(final_result) : i # j => final_result[i] # final_result[j]

\* C1's case: a run whose raw lines repeated a common rule and repeated a VIP rule.
C1_Witness ==
  /\ Returned
  /\ stats.dup_src > 0
  /\ stats.dup_vip > 0
  /\ Len(final_result) >= 2

\* C2: every rule of extra_rules that normalizes occurs exactly once in the
\* returned list, before every rule that is not a VIP rule; the raw lines that
\* normalize to a VIP rule are counted in dup_vip.
C2_VipPrecedence ==
  Returned =>
    /\ \A r \in VipSet :
         /\ Cardinality({ i \in 1..Len(final_result) : final_result[i] = r }) = 1
         /\ \A i, j \in 1..Len(final_result) :
              final_result[i] = r /\ final_result[j] \notin VipSet => i < j
    /\ stats.dup_vip = Cardinality(LinesInto(VipSet))

\* C2's case: a raw line normalizes to a VIP rule and the list also holds a
\* rule that is not a VIP rule.
C2_Witness ==
  /\ Returned
  /\ run = 1
  /\ LinesInto(VipSet) # {}
  /\ \E j \in 1..Len(final_result) : final_result[j] \notin VipSet

\* the three filter tests, each alone, on a canonical rule
IsIgnored(r) == r \in IgnoredSet
IsExcluded(r) ==
  \E i \in 1..Len(cfg.exclude_keywords) : contains(lower(r), lower(cfg.exclude_keywords[i]))
IsNotIncluded(r) ==
  /\ cfg.include_keywords # <<>>
  /\ \A i \in 1..Len(cfg.include_keywords) :
       ~contains(lower(r), lower(cfg.include_keywords[i]))

\* C3: a VIP rule that is ignored, or holds an exclude keyword, or matches no
\* include keyword, is in the returned list all the same.
C3_VipNotFiltered ==
  Returned =>
    \A r \in VipSet :
      IsIgnored(r) \/ IsExcluded(r) \/ IsNotIncluded(r) => r \in Range(final_result)

\* C3's case: the configuration holds an ignored VIP rule, an excluded VIP rule
\* and a VIP rule that matches no include keyword.
C3_Witness ==
  /\ Returned
  /\ \E r \in VipSet : IsIgnored(r)
  /\ \E r \in VipSet : IsExcluded(r)
  /\ \E r \in VipSet : IsNotIncluded(r)

\* C4 as stated: every adjacent pair of the whole returned list is in order,
\* the last VIP rule and the first common rule included.
C4_GlobalOrder ==
  Returned =>
    \A i \in 1..(Len(final_result) - 1) : InOrder(final_result[i], final_result[i + 1])

\* C4 as amended: every adjacent pair of the returned list whose two rules are
\* in the same group (both VIP or both common) is in order.
C4_GroupOrder ==
  Returned =>
    \A i \in 1..(Len(final_result) - 1) :
      ((final_result[i] \in VipSet) <=> (final_result[i + 1] \in VipSet))
        => InOrder(final_result[i], final_result[i + 1])

\* C4's case: a VIP group with two rules of one priority and a common group
\* with rules of different priorities.
C4_Witness ==
  /\ Returned
  /\ \E i \in 1..(Len(final_result) - 1) :
       /\ final_result[i] \in VipSet /\ final_result[i + 1] \in VipSet
       /\ Priority(final_result[i]) = Priority(final_result[i + 1])
  /\ \E i \in 1..(Len(final_result) - 1) :
       /\ final_result[i] \notin VipSet /\ final_result[i + 1] \notin VipSet
       /\ Priority(final_result[i]) < Priority(final_result[i + 1])

\* the second run has returned
Rerun2 == pc = "returned" /\ run = 2

\* C5 as stated: the second run returns the list of the first and counts
\* nothing as invalid, duplicate or filtered.
C5_Idempotent ==
  Rerun2 =>
    /\ final_result = first_result
    /\ stats.invalid = 0
    /\ stats.dup_vip = 0
    /\ stats.dup_src = 0
    /\ stats.filtered = 0

\* a rule that clean_rule_line reads back as something else: its type field
\* starts with "!" or with the list marker "- "
ReadsBackDifferently(rule) ==
  startswith(rule, <<"!">>) \/ startswith(rule, <<"-", " ">>)

\* C5 as amended: when no rule of the first list starts with "!" or "- ", the
\* second run returns the list of the first with invalid, dup_src and filtered
\* all 0, and dup_vip equal to the number of VIP rules.
C5_IdempotentButVip ==
  Rerun2 /\ (\A r \in Range(first_result) : ~ReadsBackDifferently(r)) =>
    /\ final_result = first_result
    /\ stats.invalid = 0
    /\ stats.dup_vip = stats.vip
    /\ stats.dup_src = 0
    /\ stats.filtered = 0

\* C5's case: the second run of a list that held VIP rules and common rules.
C5_Witness ==
  /\ Rerun2
  /\ \A r \in Range(first_result) : ~ReadsBackDifferently(r)
  /\ \E r \in Range(first_result) : r \in VipSet
  /\ \E r \in Range(first_result) : r \notin VipSet
  /\ stats.dup_vip > 0

\* the rearrangements of a list
PermutationsOf(list) ==
  { [ i \in 1..Len(list) |-> list[f[i]] ] : f \in Permutations(1..Len(list)) }

\* C6: every rearrangement of the raw lines has one possible outcome, the list
\* and the stats that were returned.
C6_OrderIndependent ==
  Returned =>
    \A lines \in PermutationsOf(raw_rules) :
      process_rules(cfg, lines) =
        { [ exc |-> FALSE, final_result |-> final_result, stats |-> stats ] }

\* C6's case: different raw lines, some void, some repeated, and a list of
\* several rules.
C6_Witness ==
  /\ Returned
  /\ Cardinality(Range(raw_rules)) >= 2
  /\ stats.invalid + stats.dup_src + stats.dup_vip > 0
  /\ Len(final_result) >= 3

RECURSIVE IsSubList(_, _)
\* a is b with some elements left out
IsSubList(a, b) ==
  IF a = <<>> THEN TRUE
  ELSE IF b = <<>> THEN FALSE
  ELSE IF Head(a) = Head(b) THEN IsSubList(Tail(a), Tail(b))
  ELSE IsSubList(a, Tail(b))

\* the keywords and the rules added to a configuration
MoreKeywords == { K_COM, K_proxy, <<>> }
MoreIgnored  == { L_example, L_host_EXAMPLE, L_example_Proxy, L_comment }

WithExclude(kw) == [cfg EXCEPT !.exclude_keywords = Append(@, kw)]
WithIgnored(r)  == [cfg EXCEPT !.ignored_rules = Append(@, r)]

\* C7: with one more exclude keyword the returned list is no longer, and is a
\* sub-list of the list returned without it.
C7_ExcludeMonotone ==
  Returned =>
    \A kw \in MoreKeywords :
      \A out \in process_rules(WithExclude(kw), raw_rules) :
        /\ ~out.exc
        /\ Len(out.final_result) <= Len(final_result)
        /\ IsSubList(out.final_result, final_result)

\* C7's case: a keyword that removes some rules of the list and keeps others.
C7_Witness ==
  /\ Returned
  /\ cfg.exclude_keywords # <<>>
  /\ \E kw \in MoreKeywords :
       \E out \in process_rules(WithExclude(kw), raw_rules) :
         /\ Len(out.final_result) < Len(final_result)
         /\ out.final_result # <<>>

\* a list without the rule r
Without(list, r) == SelectSeq(list, LAMBDA x : x # r)

\* C8 as stated: with r added to ignored_rules the returned list is the former
\* list without the canonical form of r, also when r is a VIP rule.
C8_IgnoredRemoves ==
  Returned =>
    \A r \in MoreIgnored :
      \A out \in process_rules(WithIgnored(r), raw_rules) :
        out.final_result = Without(final_result, clean_rule_line(r))

\* C8 as amended: with r added to ignored_rules the returned list is the former
\* list without the canonical form of r when that is not a VIP rule, and is
\* the former list when it is a VIP rule.
C8_IgnoredRemovesCommon ==
  Returned =>
    \A r \in MoreIgnored :
      \A out \in process_rules(WithIgnored(r), raw_rules) :
        out.final_result =
          IF clean_rule_line(r) \in VipSet THEN final_result
          ELSE Without(final_result, clean_rule_line(r))

\* C8's case: r is a common rule of a list that holds other rules too.
C8_Witness ==
  /\ Returned
  /\ Len(final_result) >= 3
  /\ \E r \in MoreIgnored :
       /\ clean_rule_line(r) \in Range(final_result)
       /\ clean_rule_line(r) \notin VipSet

\* the canonical rules of the scenario
R_DOMAIN_example == T_DOMAIN \o <<",">> \o L_example
R_SUFFIX_example == T_DOMAIN_SUFFIX \o <<",">> \o L_example
R_EXAMPLE_proxy  == upper(L_example) \o <<",">> \o K_proxy

\* the scenario has run: the three lines with empty filters
Scenario ==
  /\ Returned
  /\ run = 1
  /\ cfg = NoFilters
  /\ raw_rules = << L_DOMAIN_Example, L_example, L_example_Proxy >>

\* C10 as stated: the three lines normalize to "DOMAIN,example.com" and the
\* list has length 1 with invalid = 0, dup_src = 2, total = 1.
C10_Collapse ==
  Scenario =>
    /\ \A i \in 1..3 : clean_rule_line(raw_rules[i]) = R_DOMAIN_example
    /\ Len(final_result) = 1
    /\ stats.invalid = 0
    /\ stats.dup_src = 2
    /\ stats.total = 1

\* C10 as amended: the three lines normalize to three rules, "DOMAIN,example.com",
\* "DOMAIN-SUFFIX,example.com" and "EXAMPLE.COM,proxy", and the list holds them
\* in this order with invalid = 0, dup_src = 0, total = 3.
C10_ThreeRules ==
  Scenario =>
    /\ clean_rule_line(raw_rules[1]) = R_DOMAIN_example
    /\ clean_rule_line(raw_rules[2]) = R_SUFFIX_example
    /\ clean_rule_line(raw_rules[3]) = R_EXAMPLE_proxy
    /\ final_result = << R_DOMAIN_example, R_SUFFIX_example, R_EXAMPLE_proxy >>
    /\ stats.invalid = 0
    /\ stats.dup_src = 0
    /\ stats.total = 3

\* C10's case: the scenario has run.
C10_Witness == Scenario /\ stats.source = 3

\* the raw lines that clean_rule_line cannot parse
VoidLines == { i \in 1..Len(raw_rules) : clean_rule_line(raw_rules[i]) = None }

\* C9: process_rules never raises, and a line that cannot be parsed is counted
\* in invalid and nowhere else: the other counters and the list account for
\* the parsed lines alone.
C9_NeverRaises ==
  /\ pc # "raised"
  /\ Returned =>
       /\ stats.source = Len(raw_rules)
       /\ stats.invalid = Cardinality(VoidLines)
       /\ stats.dup_vip + stats.dup_src + stats.filtered + (stats.total - stats.vip)
            = Len(raw_rules) - Cardinality(VoidLines)
       /\ None \notin Range(final_result)

\* C9's case: a call whose raw lines were all unparseable, with unparseable
\* entries in the configured lists.
C9_Witness ==
  /\ Returned
  /\ run = 1
  /\ Len(raw_rules) >= 2
  /\ Cardinality(VoidLines) = Len(raw_rules)
  /\ cfg.extra_rules # <<>>
  /\ cfg.ignored_rules # <<>>

\* ------------------------------------------------------------------------
\* Properties of the decoders, seen through process_rules
\* ------------------------------------------------------------------------

\* the value field of a canonical rule
RuleValue(rule) == split_once(rule, ",")[2]

\* a str ends with the character c
EndsWith(s, c) == s # <<>> /\ s[Len(s)] = c

R_SUFFIX_google     == T_DOMAIN_SUFFIX \o <<",">> \o RuleValue(D_host_suffix_google)
R_SUFFIX_google_dot == R_SUFFIX_google \o <<".">>

\* the run was given exactly these raw lines, without filters or curated rules
RanOn(lines) == Returned /\ run = 1 /\ cfg = NoFilters /\ raw_rules = lines

SupportedTypes ==
  { T_DOMAIN, T_DOMAIN_SUFFIX, T_DOMAIN_KEYWORD, T_DOMAIN_WILDCARD, T_IP_CIDR,
    T_IP_CIDR6, T_IP_ASN, T_GEOIP, T_PROCESS_NAME, T_USER_AGENT }

\* the types that stand for external lists and regular expressions
AdvancedTypes == { T_DOMAIN_SET, T_RULE_SET, T_URL_REGEX }

\* the first field of a raw line with a comma, stripped and upper-cased, and
\* its second field, stripped and lower-cased
ExplicitType(line) == upper(strip(first_field(line, ",")))
ExplicitValue(line) == lower(strip(split(line, ",")[2]))

\* the positions of the raw lines with a comma, and of those among them whose
\* type is outside the supported set
ExplicitLines == { i \in 1..Len(raw_rules) : has_char(raw_rules[i], ",") }
UnknownTypeLines ==
  { i \in ExplicitLines :
      ExplicitType(raw_rules[i]) \notin
        SupportedTypes \cup AdvancedTypes \cup { T_HOST, T_HOST_SUFFIX, T_HOST_WILDCARD,
                                                 T_HOST_KEYWORD, T_IP6_CIDR, T_FULL } }

AdvancedLines == { i \in ExplicitLines : ExplicitType(raw_rules[i]) \in AdvancedTypes }

\* C13: no returned rule has the type DOMAIN-SET, RULE-SET or URL-REGEX, also
\* when such a line is among the curated rules; each raw line of such a type
\* is counted in invalid, and a run on such lines alone returns the VIP rules
\* only and counts every line as invalid.
C13_AdvancedTypesVoid ==
  Returned =>
    /\ \A r \in Range(final_result) : RuleType(r) \notin AdvancedTypes
    /\ stats.invalid >= Cardinality(AdvancedLines)
    /\ stats.dup_vip + stats.dup_src + stats.filtered + (stats.total - stats.vip)
         <= Len(raw_rules) - Cardinality(AdvancedLines)
    /\ Cardinality(AdvancedLines) = Len(raw_rules)
         => stats.invalid = Len(raw_rules) /\ Len(final_result) = stats.vip

\* C13's case: a run on two lines of such types, in different letter cases and
\* one with a trailing field, with a line of such a type among the curated rules.
C13_Witness ==
  /\ Returned
  /\ run = 1
  /\ Cardinality(AdvancedLines) = 2
  /\ \E i, j \in AdvancedLines :
       /\ raw_rules[i] # upper(raw_rules[i])
       /\ Len(split(raw_rules[j], ",")) = 3
  /\ \E k \in 1..Len(cfg.extra_rules) :
       ExplicitType(cfg.extra_rules[k]) \in AdvancedTypes
  /\ stats.invalid = 2

\* a comma-free line of the hosts-file shape: an IPv4 address (digits and
\* dots, the first character a digit), then one or more further tokens
IsHostsLine(line) ==
  LET tokens == split_ws(line)
  IN  /\ ~has_char(line, ",")
      /\ Len(tokens) >= 2
      /\ tokens[1][1] \in Digits
      /\ \A k \in 1..Len(tokens[1]) : tokens[1][k] \in Digits \cup { "." }

\* the rule the hosts-file reading gives: DOMAIN with the last token, in lower case
HostsRule(line) ==
  LET tokens == split_ws(line) IN T_DOMAIN \o <<",">> \o lower(tokens[Len(tokens)])

HostsLines == { i \in 1..Len(raw_rules) : IsHostsLine(raw_rules[i]) }

\* C14 as stated: every hosts-file line gives DOMAIN with its last token,
\* whatever its leading IPv4 address.
C14_HostsAnyAddress ==
  Returned => \A i \in HostsLines : HostsRule(raw_rules[i]) \in Range(final_result)

\* C14 as amended: a hosts-file line gives DOMAIN with its last token (in lower
\* case) when it starts with "127.0.0.1" or "0.0.0.0"; with another leading
\* address it gives no rule and is counted as invalid.
C14_HostsLoopbackOnly ==
  LET LoopbackLines ==
        { i \in HostsLines :
            \E p \in { SubSeq(D_hosts_127, 1, 9), SubSeq(D_hosts_0, 1, 7) } :
              startswith(raw_rules[i], p) }
      OtherLines == HostsLines \ LoopbackLines
  IN  Returned =>
        /\ \A i \in LoopbackLines : HostsRule(raw_rules[i]) \in Range(final_result)
        /\ stats.invalid >= Cardinality(OtherLines)
        /\ stats.dup_vip + stats.dup_src + stats.filtered + (stats.total - stats.vip)
             <= Len(raw_rules) - Cardinality(OtherLines)
        /\ RanOn(<< D_hosts_127 >>) => final_result = << HostsRule(D_hosts_127) >>
        /\ RanOn(<< D_hosts_10 >>) => final_result = <<>> /\ stats.invalid = 1

\* C14's case: a run on a line that starts with "0.0.0.0" and has three
\* tokens, and on a line with another address.
C14_Witness ==
  /\ RanOn(<< D_hosts_0, D_hosts_10 >>)
  /\ final_result = << HostsRule(D_hosts_0) >>
  /\ stats.invalid = 1

\* ------------------------------------------------------------------------
\* Properties of the formatters
\* ------------------------------------------------------------------------

ClashDone == pc = "clash"
QuantumultxDone == pc = "quantumultx"

\* the header lines every Clash bucket starts with
ClashHeaders ==
  << S_payload >>
    \o (IF header_lines = None THEN <<>>
        ELSE [ i \in 1..Len(header_lines) |-> <<" ", " ", "#", " ">> \o header_lines[i] ])

\* the rule lines of a bucket: its lines after the header lines
RuleLines(key) == SubSeq(content[key], Len(ClashHeaders) + 1, Len(content[key]))

\* the positions of the rules whose type has a mapping to Clash
ClashRules ==
  { i \in 1..Len(rules) : has_char(rules[i], ",") /\ RuleType(rules[i]) \in CLASH_MAPPING_keys }

\* the type a rule is emitted with, and the emitted type of a rule line
EmittedType(rule) ==
  IF RuleType(rule) = T_DOMAIN_WILDCARD THEN T_DOMAIN_SUFFIX ELSE RuleType(rule)
LineType(rule_line) == first_field(SubSeq(rule_line, 5, Len(rule_line)), ",")

\* a str ends with the str suffix
EndsWithStr(s, suffix) ==
  Len(s) >= Len(suffix) /\ SubSeq(s, Len(s) - Len(suffix) + 1, Len(s)) = suffix

\* the bucket of a type as the claim has it, and with SRC-IP-CIDR an address type
ClaimedBucket(type) ==
  IF type \in { T_DOMAIN, T_DOMAIN_SUFFIX, T_DOMAIN_KEYWORD, T_DOMAIN_WILDCARD } THEN B_Domain
  ELSE IF type \in { T_IP_CIDR, T_IP_CIDR6, T_GEOIP, T_IP_ASN } THEN B_IP
  ELSE B_Classical
BucketOf(type) == IF type = T_SRC_IP_CIDR THEN B_IP ELSE ClaimedBucket(type)

\* every rule with a mapping has its line in the bucket Bucket gives its type
\* and the buckets hold no other rule lines; a rule line ends with
\* ",no-resolve" exactly when its type is IP-CIDR or IP-CIDR6
RoutedBy(Bucket(_)) ==
  /\ \A i \in ClashRules :
       \E k \in 1..Len(RuleLines(Bucket(RuleType(rules[i])))) :
         LET rule_line == RuleLines(Bucket(RuleType(rules[i])))[k]
         IN  /\ LineType(rule_line) = EmittedType(rules[i])
             /\ \/ rule_line = <<" ", " ", "-", " ">> \o EmittedType(rules[i]) \o <<",">>
                                 \o RuleValue(rules[i])
                \/ rule_line = <<" ", " ", "-", " ">> \o EmittedType(rules[i]) \o <<",">>
                                 \o RuleValue(rules[i]) \o S_no_resolve
  /\ \A key \in BucketKeys :
       Len(RuleLines(key)) = Cardinality({ i \in ClashRules : Bucket(RuleType(rules[i])) = key })
  /\ \A key \in BucketKeys : \A k \in 1..Len(RuleLines(key)) :
       EndsWithStr(RuleLines(key)[k], S_no_resolve)
         <=> LineType(RuleLines(key)[k]) \in { T_IP_CIDR, T_IP_CIDR6 }

\* the scenario: one rule line in each bucket, the IP bucket's with the suffix
ClashScenario ==
  rules = << R_DOMAIN_a, R_IP_CIDR, R_PROCESS_foo >> =>
    /\ \A key \in BucketKeys : Len(RuleLines(key)) = 1
    /\ EndsWithStr(RuleLines(B_IP)[1], S_no_resolve)

\* C15 as stated: DOMAIN, DOMAIN-SUFFIX, DOMAIN-KEYWORD and DOMAIN-WILDCARD go
\* to Domain, IP-CIDR, IP-CIDR6, GEOIP and IP-ASN to IP, every other mapped type
\* to Classical, each rule to one bucket; ",no-resolve" ends the lines of type
\* IP-CIDR and IP-CIDR6 and no others; the scenario fills each bucket with one line.
C15_Routing == ClashDone => RoutedBy(ClaimedBucket) /\ ClashScenario

\* C15 as amended: the same, with SRC-IP-CIDR among the types that go to IP.
C15_RoutingSrcIp == ClashDone => RoutedBy(BucketOf) /\ ClashScenario

\* C15's case: the scenario's three rules have been formatted.
C15_Witness ==
  /\ ClashDone
  /\ rules = << R_DOMAIN_a, R_IP_CIDR, R_PROCESS_foo >>
  /\ \A key \in BucketKeys : Len(RuleLines(key)) = 1

\* C16: the result has exactly the keys Domain, IP and Classical, every bucket
\* starts with "payload:" and the configured comment headers, and a call
\* without a rule that has a mapping returns three buckets of header lines.
C16_ThreeBuckets ==
  ClashDone =>
    /\ DOMAIN content = { B_Domain, B_IP, B_Classical }
    /\ \A key \in DOMAIN content :
         /\ Len(content[key]) >= Len(ClashHeaders)
         /\ SubSeq(content[key], 1, Len(ClashHeaders)) = ClashHeaders
    /\ ClashRules = {} => \A key \in DOMAIN content : content[key] = ClashHeaders

\* C16's case: the empty rule list has been formatted with two header lines.
C16_Witness ==
  /\ ClashDone
  /\ rules = <<>>
  /\ header_lines # None
  /\ Len(header_lines) = 2
  /\ DOMAIN content = BucketKeys

\* C17 as stated: a bucket is a key of the result exactly when a rule was
\* routed to it.
C17_EmptyBucketAbsent ==
  ClashDone =>
    \A key \in BucketKeys :
      key \in DOMAIN content <=> \E i \in ClashRules : BucketOf(RuleType(rules[i])) = key

\* C17 as amended: a bucket is a key of the result whether or not a rule was
\* routed to it, and after its header lines it holds one line for each rule
\* routed to it: none for a bucket without rules.
C17_EmptyBucketPresent ==
  ClashDone =>
    \A key \in BucketKeys :
      /\ key \in DOMAIN content
      /\ Len(content[key])
           = Len(ClashHeaders)
               + Cardinality({ i \in ClashRules : BucketOf(RuleType(rules[i])) = key })

\* C17's case: rules were routed to the IP bucket and none to the other two.
C17_Witness ==
  /\ ClashDone
  /\ ClashRules # {}
  /\ \A i \in ClashRules : BucketOf(RuleType(rules[i])) = B_IP
  /\ content[B_Domain] = ClashHeaders
  /\ content[B_Classical] = ClashHeaders

\* the positions of the rules whose type is a key of QX_MAPPING
QuantumultxRules ==
  { i \in 1..Len(rules) : has_char(rules[i], ",") /\ RuleType(rules[i]) \in QX_MAPPING_keys }

\* the rules at the positions S, in the order of the list
RECURSIVE RulesAt(_, _)
RulesAt(S, from) ==
  IF from > Len(rules) THEN <<>>
  ELSE (IF from \in S THEN << rules[from] >> ELSE <<>>) \o RulesAt(S, from + 1)

\* C18: the output is one line "# <header>" for each header line, then, in
\* the order of the input, one line "<QX keyword>,<value>,<policy tag>" for
\* each rule whose type is a key of QX_MAPPING, and nothing else: a rule of
\* another type and a line without a comma leave no line.
C18_Quantumultx ==
  QuantumultxDone =>
    LET n_headers == IF header_lines = None THEN 0 ELSE Len(header_lines)
        mapped    == RulesAt(QuantumultxRules, 1)
    IN  /\ Len(content) = n_headers + Len(mapped)
        /\ \A i \in 1..n_headers : content[i] = <<"#", " ">> \o header_lines[i]
        /\ \A i \in 1..Len(mapped) :
             content[n_headers + i]
               = QX_MAPPING(RuleType(mapped[i])) \o <<",">> \o RuleValue(mapped[i])
                   \o <<",">> \o policy_tag

\* C18's case: a list with a mapped rule, a PROCESS-NAME rule and a line
\* without a comma has been formatted with header lines.
C18_Witness ==
  /\ QuantumultxDone
  /\ header_lines # None
  /\ header_lines # <<>>
  /\ R_PROCESS_foo \in Range(rules)
  /\ L_example \in Range(rules)
  /\ R_DOMAIN_a \in Range(rules)
  /\ Len(content) = Len(header_lines) + 1

\* ------------------------------------------------------------------------
\* Further properties of process_rules
\* ------------------------------------------------------------------------

\* the VIP group and the common group of the returned list
VipGroup == SubSeq(final_result, 1, stats.vip)
CommonGroup == SubSeq(final_result, stats.vip + 1, Len(final_result))

\* a sorts strictly before b: by priority, then by the whole rule
SortsBefore(a, b) ==
  \/ Priority(a) < Priority(b)
  \/ Priority(a) = Priority(b) /\ a # b /\ str_le(a, b)

\* C19: the returned list is the VIP group followed by the common group; in
\* each group every rule sorts before every later rule by (priority, rule),
\* and a rule whose type is absent from the priority table has the default
\* priority: it stands after every rule of its group whose type is in the table.
C19_GroupwiseSorted ==
  Returned =>
    /\ stats.vip <= Len(final_result)
    /\ Range(VipGroup) = VipSet
    /\ Range(CommonGroup) \cap VipSet = {}
    /\ \A group \in { VipGroup, CommonGroup } :
         \A i, j \in 1..Len(group) :
           i < j =>
             /\ SortsBefore(group[i], group[j])
             /\ RuleType(group[i]) \notin SupportedTypes
                  => /\ RuleType(group[j]) \notin SupportedTypes
                     /\ Priority(group[i]) = DEFAULT_PRIORITY

\* C19's case: a VIP group whose rules differ in priority, one of them of a
\* type outside the table, and a common group of three rules.
C19_Witness ==
  /\ Returned
  /\ Len(VipGroup) = 2
  /\ Priority(VipGroup[1]) < Priority(VipGroup[2])
  /\ RuleType(VipGroup[2]) \notin SupportedTypes
  /\ Len(CommonGroup) = 3

\* a canonical rule is filtered: it is ignored, or it holds an exclude keyword,
\* or there are include keywords and it holds none (keywords match in any
\* letter case)
IsFilteredOut(r) == IsIgnored(r) \/ IsExcluded(r) \/ IsNotIncluded(r)

\* the positions of the raw lines that decode to a rule which is no VIP rule
\* and is filtered
FilteredLines ==
  { i \in 1..Len(raw_rules) :
      LET r == clean_rule_line(raw_rules[i])
      IN  r # None /\ r \notin VipSet /\ IsFilteredOut(r) }

\* C20: no rule of the common group is ignored, holds an exclude keyword, or
\* misses every include keyword when there are include keywords; a raw line
\* that decodes to a rule which is no VIP rule and is not filtered has its
\* rule in the returned list; each raw line whose rule is filtered is counted
\* in filtered.
C20_FilterSound ==
  Returned =>
    /\ \A r \in Range(final_result) \ VipSet : ~IsFilteredOut(r)
    /\ \A i \in 1..Len(raw_rules) :
         LET r == clean_rule_line(raw_rules[i])
         IN  (r # None /\ r \notin VipSet /\ ~IsFilteredOut(r)) => r \in Range(final_result)
    /\ stats.filtered = Cardinality(FilteredLines)

\* C20's case: a run with ignored rules, exclude keywords and include keywords
\* that filtered a rule and let another through.
C20_Witness ==
  /\ Returned
  /\ run = 1
  /\ cfg.ignored_rules # <<>>
  /\ cfg.exclude_keywords # <<>>
  /\ cfg.include_keywords # <<>>
  /\ stats.filtered > 0
  /\ Range(final_result) \ VipSet # {}

\* ------------------------------------------------------------------------
\* Type resolution and address inference
\* ------------------------------------------------------------------------

\* the resolved type of an explicit type as the specification's synonym table
\* has it; a type of the supported set is its own resolved type
SynonymOf(type) ==
  CASE type = T_HOST        -> T_DOMAIN
    [] type = T_HOST_SUFFIX -> T_DOMAIN_SUFFIX
    [] type = T_IP6_CIDR    -> T_IP_CIDR6
    [] type = <<"A", "S", "N">> -> T_IP_ASN
    [] type = T_FULL        -> T_DOMAIN
    [] OTHER                -> type

\* the positions of the raw lines with a comma, a non-empty value and a type
\* that is a synonym or in the supported set
ResolvableLines ==
  { i \in ExplicitLines :
      /\ ExplicitValue(raw_rules[i]) # <<>>
      /\ SynonymOf(ExplicitType(raw_rules[i])) \in SupportedTypes }

\* C21: a line with a comma and a non-empty value gives the rule whose type is
\* the synonym table's image of its upper-cased first field: HOST gives DOMAIN,
\* HOST-SUFFIX gives DOMAIN-SUFFIX, IP6-CIDR gives IP-CIDR6, ASN gives IP-ASN,
\* FULL gives DOMAIN, and a type of the supported set stays as it is, so
\* "PROCESS-NAME,foo" gives "PROCESS-NAME,foo" and "IP-ASN,1" gives "IP-ASN,1".
C21_TypeResolution ==
  Returned =>
    /\ \A i \in ResolvableLines :
         SynonymOf(ExplicitType(raw_rules[i])) \o <<",">> \o ExplicitValue(raw_rules[i])
           \in Range(final_result)
    /\ \A r \in Range(final_result) :
         RuleType(r) = T_USER_AGENT
           => \E i \in ExplicitLines : ExplicitType(raw_rules[i]) = T_USER_AGENT

\* a comma-free line that holds ":" and only digits, the letters a to f, ".",
\* ":", "/" and spaces
IsIPv6Payload(line) ==
  /\ ~has_char(line, ",")
  /\ has_char(line, ":")
  /\ \A k \in 1..Len(line) :
       line[k] \in Digits \cup { "a", "b", "c", "d", "e", "f", ".", ":", "/", " " }

IPv6Lines == { i \in 1..Len(raw_rules) : IsIPv6Payload(raw_rules[i]) }

\* those of them the code reads as addresses: the first character a digit
\* and no letter
DigitIPv6Lines ==
  { i \in IPv6Lines :
      /\ raw_rules[i][1] \in Digits
      /\ \A k \in 1..Len(raw_rules[i]) : raw_rules[i][k] \in Digits \cup { ".", ":", "/" } }

\* C22 as stated: every such payload gives the rule IP-CIDR6 with the payload,
\* whatever its first character: "fe80::1", "::1" and "2001:db8::/32" too.
C22_IPv6Inference ==
  Returned =>
    \A i \in IPv6Lines : T_IP_CIDR6 \o <<",">> \o raw_rules[i] \in Range(final_result)

\* C22 as amended: such a payload gives the rule IP-CIDR6 with the payload
\* when its first character is a digit and it holds no letter and no space;
\* a payload that starts with another character or holds a hex letter gives no
\* IP-CIDR6 rule: "fe80::1", "::1" and "2001:db8::/32" give no rule and are
\* counted as invalid.
C22_IPv6DigitsOnly ==
  Returned =>
    /\ \A i \in DigitIPv6Lines :
         T_IP_CIDR6 \o <<",">> \o raw_rules[i] \in Range(final_result)
    /\ \A i \in IPv6Lines \ DigitIPv6Lines :
         T_IP_CIDR6 \o <<",">> \o raw_rules[i] \notin Range(final_result)
    /\ \A line \in { Y_fe80, Y_loopback, Y_2001_db8 } :
         RanOn(<< line >>) => final_result = <<>> /\ stats.invalid = 1

\* C22's case: a run on an address of digits and on an address with hex letters.
C22_Witness ==
  /\ RanOn(<< Y_1_2_64, Y_2001_db8 >>)
  /\ final_result = << T_IP_CIDR6 \o <<",">> \o Y_1_2_64 >>
  /\ stats.invalid = 1

\* ------------------------------------------------------------------------
\* Counter accounting
\* ------------------------------------------------------------------------

\* the configured entries that clean_rule_line maps to no rule
VoidEntries(items) == { i \in 1..Len(items) : falsy(clean_rule_line(items[i])) }

\* C23: after process_rules every raw line is counted once, in invalid,
\* dup_vip, dup_src or filtered, or has added one rule to the common group:
\* source is the number of raw lines and the sum of the four counters and
\* total - vip; vip is the number of distinct canonical VIP rules and total the
\* length of the returned list; the void entries of extra_rules and
\* ignored_rules are counted nowhere.
C23_CounterAccounting ==
  Returned =>
    /\ stats.source = Len(raw_rules)
    /\ stats.source = stats.invalid + stats.dup_vip + stats.dup_src + stats.filtered
                        + (stats.total - stats.vip)
    /\ stats.vip = Cardinality(VipSet)
    /\ stats.vip <= Len(cfg.extra_rules) - Cardinality(VoidEntries(cfg.extra_rules))
    /\ stats.total = Len(final_result)
    /\ stats.dup_vip = Cardinality(LinesInto(VipSet))
    /\ stats.total - stats.vip = Cardinality(Range(final_result) \ VipSet)
    /\ \A k \in DOMAIN stats : stats[k] >= 0

\* C23's case: void entries in both configured lists, and raw lines that are
\* counted as invalid, as a VIP duplicate and as a new rule.
C23_Witness ==
  /\ Returned
  /\ run = 1
  /\ VoidEntries(cfg.extra_rules) # {}
  /\ VoidEntries(cfg.ignored_rules) # {}
  /\ stats.invalid > 0
  /\ stats.dup_vip > 0
  /\ stats.total > stats.vip

\* ------------------------------------------------------------------------
\* The Quantumult X output read back
\* ------------------------------------------------------------------------

\* the number of header lines in the output
HeaderCount == IF falsy(header_lines) THEN 0 ELSE Len(header_lines)

\* C24: for every rule that clean_rule_line produced and whose type is a key
\* of QX_MAPPING, and every policy tag, clean_rule_line gives the rule back
\* from the line the Quantumult X formatter wrote for it; so a run on the
\* written lines returns the rules that were written, and counts the header
\* lines as invalid and nothing else.
C24_QuantumultxRoundTrip ==
  LET mapped == RulesAt(QuantumultxRules, 1)
  IN  /\ QuantumultxDone =>
           /\ Len(content) = HeaderCount + Len(mapped)
           /\ \A i \in 1..Len(mapped) :
                clean_rule_line(content[HeaderCount + i]) = mapped[i]
      /\ Returned /\ run = 2 =>
           /\ final_result = mapped
           /\ stats.invalid = HeaderCount
           /\ stats.dup_src = 0

\* C24's case: rules with keywords that differ from their types were written
\* after two header lines under the policy tag "Proxy", and read back.
C24_Witness ==
  /\ Returned
  /\ run = 2
  /\ policy_tag = P_Proxy
  /\ header_lines = << H_by_x, H_v1 >>
  /\ Len(rules) = 2
  /\ \E r \in Range(rules) : RuleType(r) = T_IP_CIDR6
  /\ \E r \in Range(rules) : RuleType(r) = T_DOMAIN_SUFFIX
  /\ final_result = rules

\* ------------------------------------------------------------------------
\* Task isolation in _run_phase
\* ------------------------------------------------------------------------

\* the number of tasks whose call did one of the outcomes of S
CountOf(S) == Cardinality({ k \in 1..Len(phase.outcomes) : phase.outcomes[k] \in S })

\* C25: whatever the tasks do, each task is attempted once, in the order of
\* the list, a task that raises does not keep a later task from being
\* attempted, and the stats of the category at the end of the phase count each
\* task once: success is the number of tasks that returned True, fail the
\* number of the others, and success + fail = total.
C25_TaskIsolation ==
  /\ phase.attempted = [ k \in 1..phase.done |-> k ]
  /\ pc = "done" => phase.done = Len(phase.configs)
  /\ pc = "done" /\ category \in DOMAIN phase.stats =>
       /\ phase.stats[category].total = Len(phase.configs)
       /\ phase.stats[category].success = CountOf({ O_True })
       /\ phase.stats[category].fail = CountOf({ O_False, O_raise })
       /\ phase.stats[category].success + phase.stats[category].fail
            = phase.stats[category].total

====
